---------------------------- MODULE Spec2Model ----------------------------
(***************************************************************************)
(* Model of the clip splicer of PodVibe.fm (src/src/utils/clip-splicer.ts) *)
(*                                                                         *)
(* Times are integers counting tenths of a second (0.5 s = 5, 2 s = 20):   *)
(* the code only adds, subtracts, compares and takes min/max of times, so  *)
(* the unit is immaterial to it.                                           *)
(*                                                                         *)
(* JavaScript objects are modelled by reference where the code shares      *)
(* them: the caller's list of TimeRange objects is the sequence `ranges`   *)
(* (position = object identity), and a list of ranges handed to or         *)
(* returned by mergeOverlappingRanges is a sequence of positions in it.    *)
(***************************************************************************)
EXTENDS Integers, Sequences, FiniteSets, TLC

VARIABLES
    ranges,   \* the caller-held TimeRange objects, with their current fields
    mcall,    \* the last call of mergeOverlappingRanges: arguments and result
    segments, \* transcript.segments, as the loader left them
    call,     \* the last call of a search or boundary function, with its result
    cli       \* the run of the command-line program: arguments, position, effects

mergeVars == <<ranges, mcall>>
transcriptVars == <<segments, call>>
vars == <<ranges, mcall, segments, call, cli>>

----------------------------------------------------------------------------
(* Bounds of the model *)

MaxTime == 3      \* the largest timestamp drawn for an input
MaxRanges == 3    \* the longest list of ranges given to the merger
MaxGap == 2       \* the largest explicit gap threshold
MaxSegs == 3      \* the longest transcript drawn
MaxPad == 1       \* the largest explicit paddingSeconds
MaxText == 2      \* the longest segment text and keyword, in characters
MaxTextSegs == 2  \* the longest transcript searched by keyword
MaxKeywords == 2  \* the longest keyword list
MaxTimeText == 5  \* the longest string handed to parseTime
MaxRawSegs == 2   \* the longest list of raw segments in a document
MaxFade == 2      \* the longest fade
MaxClips == 2     \* the longest list of ranges or insights turned into commands
MaxForeignSegs == 2  \* the longest transcript searched for segments it does not hold

(* Program constants *)

DefaultGap == 20  \* gapThreshold = 2 (seconds)
DefaultPadding == 5   \* paddingSeconds = 0.5

\* An optional argument is a sequence: <<>> when the caller left it out
\* (undefined), <<v>> when it was given as v.
Absent == <<>>
Given(v) == <<v>>

Max(a, b) == IF a >= b THEN a ELSE b

----------------------------------------------------------------------------
(* Interval Merger *)

TimeRanges == { r \in [start : 0..MaxTime, end : 0..MaxTime] : r.start <= r.end }

RangeLists == UNION { [1..n -> TimeRanges] : n \in 0..MaxRanges }

GapArgs == {Absent} \cup { Given(g) : g \in 0..MaxGap }

\* gapThreshold = 2: the default parameter value
GapValue(g) == IF g = Absent THEN DefaultGap ELSE g[1]

\* Array.prototype.sort is stable: r goes behind every reference whose
\* start is <= its own.
RECURSIVE InsertByStart(_, _, _)
InsertByStart(heap, sorted, r) ==
    IF sorted = <<>> THEN <<r>>
    ELSE IF heap[Head(sorted)].start <= heap[r].start
         THEN <<Head(sorted)>> \o InsertByStart(heap, Tail(sorted), r)
         ELSE <<r>> \o sorted

\* [...ranges].sort((a, b) => a.start - b.start): a new array of the SAME objects
RECURSIVE SortByStart(_, _)
SortByStart(heap, refs) ==
    IF refs = <<>> THEN <<>>
    ELSE InsertByStart(heap,
                       SortByStart(heap, SubSeq(refs, 1, Len(refs) - 1)),
                       refs[Len(refs)])

\* the merge branch taking the end of the swept range instead of the larger end
SweepStepNoMax(st, cur, g) ==
    LET last == st.merged[Len(st.merged)] IN
    IF st.heap[cur].start <= st.heap[last].end + g
    THEN [heap   |-> [st.heap EXCEPT ![last].end = st.heap[cur].end],
          merged |-> st.merged]
    ELSE [heap |-> st.heap, merged |-> Append(st.merged, cur)]

\* the gap threshold left out of the comparison
SweepStepNoGap(st, cur, g) ==
    LET last == st.merged[Len(st.merged)] IN
    IF st.heap[cur].start <= st.heap[last].end
    THEN [heap   |-> [st.heap EXCEPT ![last].end = Max(@, st.heap[cur].end)],
          merged |-> st.merged]
    ELSE [heap |-> st.heap, merged |-> Append(st.merged, cur)]

\* the gap tolerance made exclusive
SweepStepStrict(st, cur, g) ==
    LET last == st.merged[Len(st.merged)] IN
    IF st.heap[cur].start < st.heap[last].end + g
    THEN [heap   |-> [st.heap EXCEPT ![last].end = Max(@, st.heap[cur].end)],
          merged |-> st.merged]
    ELSE [heap |-> st.heap, merged |-> Append(st.merged, cur)]

\* the merge branch ending the swept range one step behind the larger end
SweepStepPadEnd(st, cur, g) ==
    LET last == st.merged[Len(st.merged)] IN
    IF st.heap[cur].start <= st.heap[last].end + g
    THEN [heap   |-> [st.heap EXCEPT ![last].end = Max(@, st.heap[cur].end) + 1],
          merged |-> st.merged]
    ELSE [heap |-> st.heap, merged |-> Append(st.merged, cur)]

\* one iteration of the for loop: `last` is an object of the input list, and
\* `last.end = ...` writes to it
SweepStep(st, cur, g) ==
    LET last == st.merged[Len(st.merged)] IN
    IF st.heap[cur].start <= st.heap[last].end + g
    THEN [heap   |-> [st.heap EXCEPT ![last].end = Max(@, st.heap[cur].end)],
          merged |-> st.merged]
    ELSE [heap |-> st.heap, merged |-> Append(st.merged, cur)]

\* the state of the loop once sorted[1..k] have been swept
RECURSIVE SweepAfter(_, _, _, _)
SweepAfter(heap, sorted, g, k) ==
    IF k = 1 THEN [heap |-> heap, merged |-> <<sorted[1]>>]
    ELSE SweepStep(SweepAfter(heap, sorted, g, k - 1), sorted[k], g)

mergeOverlappingRanges(heap, refs, g) ==
    IF Len(refs) = 0 THEN [heap |-> heap, merged |-> <<>>]
    ELSE SweepAfter(heap, SortByStart(heap, refs), g, Len(refs))

\* the list the caller holds: every object once, in order
CallerList == [i \in 1..Len(ranges) |-> i]

NoMerge == [done |-> FALSE, arg |-> <<>>, gap |-> Absent, out |-> <<>>]

NoCall == [op |-> "none"]

\* the command-line program is not running
NoRun == [pc |-> "none"]

InitMerge ==
    /\ ranges \in RangeLists
    /\ mcall = NoMerge
    /\ cli = NoRun
    /\ segments = <<>>
    /\ call = NoCall

\* merged = mergeOverlappingRanges(ranges, gap) on the caller-held list
MergeCall ==
    \E g \in GapArgs :
        LET r == mergeOverlappingRanges(ranges, CallerList, GapValue(g)) IN
        /\ ranges' = r.heap
        /\ mcall' = [done |-> TRUE, arg |-> ranges, gap |-> g, out |-> r.merged]
        /\ UNCHANGED <<transcriptVars, cli>>

NextMerge == MergeCall

SpecMerge == InitMerge /\ [][NextMerge]_vars

----------------------------------------------------------------------------
(* Properties of the Interval Merger *)

\* the ranges a finished call returned, as the caller reads them
MergedValues == [k \in 1..Len(mcall.out) |-> ranges[mcall.out[k]]]

\* Time is continuous: between two integer timestamps lies a point that
\* belongs to neither. Point p stands for the time p/2.
Points == 0..(2 * MaxTime)

Covers(r, p) == 2 * r.start <= p /\ p <= 2 * r.end

CoveredBy(rs, p) == \E i \in 1..Len(rs) : Covers(rs[i], p)

\* p lies in a gap between two ranges of rs that is at most g long
Bridged(rs, g, p) ==
    \E a, b \in 1..Len(rs) :
        /\ 2 * rs[a].end < p
        /\ p < 2 * rs[b].start
        /\ rs[b].start <= rs[a].end + g

\* C1: the ranges returned by mergeOverlappingRanges are ordered by start, and
\* each one starts more than gapThreshold after the end of the one before it.
MergeOutputSeparated ==
    mcall.done =>
        \A k \in 1..(Len(mcall.out) - 1) :
            /\ MergedValues[k].start <= MergedValues[k + 1].start
            /\ MergedValues[k + 1].start > MergedValues[k].end + GapValue(mcall.gap)

\* an unsorted input of which some ranges were merged and some kept apart
MergeOutputSeparatedWitness ==
    /\ mcall.done
    /\ Len(mcall.out) >= 2
    /\ Len(mcall.out) < Len(mcall.arg)
    /\ \E i \in 1..(Len(mcall.arg) - 1) : mcall.arg[i].start > mcall.arg[i + 1].start

\* C2 as stated: a time point lies in a returned range if and only if it lies
\* in a range of the input, whatever the gap threshold.
MergeCoversExactlyUnion ==
    mcall.done =>
        \A p \in Points : CoveredBy(MergedValues, p) <=> CoveredBy(mcall.arg, p)

\* C2 amended: every point of an input range lies in a returned range; a
\* point outside every input range lies in a returned range if and only if it
\* lies in a gap between two input ranges of length at most gapThreshold; so
\* with gapThreshold 0 the returned ranges cover exactly the union.
MergeCoversUnionAndBridgedGaps ==
    mcall.done =>
        /\ \A p \in Points :
              CoveredBy(MergedValues, p) <=>
                  \/ CoveredBy(mcall.arg, p)
                  \/ Bridged(mcall.arg, GapValue(mcall.gap), p)
        /\ GapValue(mcall.gap) = 0 =>
              \A p \in Points :
                  CoveredBy(MergedValues, p) <=> CoveredBy(mcall.arg, p)

\* a call that bridged one gap and left another, wider one open
MergeCoversWitness ==
    /\ mcall.done
    /\ GapValue(mcall.gap) > 0
    /\ \E p \in Points : CoveredBy(MergedValues, p) /\ ~CoveredBy(mcall.arg, p)
    /\ \E p, q, r \in Points :
          /\ p < q /\ q < r
          /\ CoveredBy(MergedValues, p) /\ CoveredBy(MergedValues, r)
          /\ ~CoveredBy(MergedValues, q)

\* C3: in the sweep over the ranges sorted by start, a range that starts
\* exactly at current.end + gapThreshold is merged into the current range,
\* whose end becomes the larger of the two ends, and a range that starts
\* later than that opens a new output range.
GapToleranceInclusive ==
    (mcall.done /\ Len(mcall.arg) > 0) =>
        LET heap0  == mcall.arg
            g      == GapValue(mcall.gap)
            sorted == SortByStart(heap0, [i \in 1..Len(heap0) |-> i])
        IN  /\ mcall.out = SweepAfter(heap0, sorted, g, Len(sorted)).merged
            /\ \A k \in 2..Len(sorted) :
                  LET before == SweepAfter(heap0, sorted, g, k - 1)
                      after  == SweepAfter(heap0, sorted, g, k)
                      last   == before.merged[Len(before.merged)]
                      next   == sorted[k]
                  IN  /\ before.heap[next].start = before.heap[last].end + g =>
                            /\ after.merged = before.merged
                            /\ after.heap[last].end =
                                   Max(before.heap[last].end, before.heap[next].end)
                      /\ before.heap[next].start > before.heap[last].end + g =>
                            /\ after.merged = Append(before.merged, next)
                            /\ after.heap = before.heap

\* two ranges exactly gapThreshold > 0 apart came back as one range
GapToleranceInclusiveWitness ==
    /\ mcall.done
    /\ GapValue(mcall.gap) > 0
    /\ Len(mcall.arg) = 2
    /\ mcall.arg[2].start = mcall.arg[1].end + GapValue(mcall.gap)
    /\ Len(mcall.out) = 1
    /\ MergedValues[1].end = mcall.arg[2].end

\* C4: after a call, every range object of the caller's list has the start
\* and end it had before the call, and the list has the same order and length.
MergeLeavesInputUnchanged ==
    mcall.done => ranges = mcall.arg

----------------------------------------------------------------------------
(* Transcript: segments, search and boundary expansion *)

\* speaker?: string -- Absent, or Given(name)
Speakers == {Absent, Given("A"), Given("B")}

Segments ==
    { s \in [start : 0..MaxTime, end : 0..MaxTime, speaker : Speakers] :
        s.start <= s.end }

Seg(sp, a, b) == [start |-> a, end |-> b, speaker |-> sp]

\* array order = chronological order: the callers supply segments by start
StartsAscending(all) ==
    \A i \in 1..(Len(all) - 1) : all[i].start <= all[i + 1].start

Transcripts ==
    { t \in UNION { [1..n -> Segments] : n \in 0..MaxSegs } : StartsAscending(t) }

\* The transcripts of the documented scenarios, in tenths of a second.
\* A:[0,2], A:[2,4], B:[4,6], A:[6,8]
SpeakerTurnScenario ==
    << Seg(Given("A"), 0, 20), Seg(Given("A"), 20, 40),
       Seg(Given("B"), 40, 60), Seg(Given("A"), 60, 80) >>

\* {text: "let's talk about AI", start: 10, end: 14, speaker: "H"}
KeywordScenario == << Seg(Given("H"), 100, 140) >>

\* a selection starting at t = 0.2
PaddingFloorScenario == << Seg(Given("A"), 2, 30) >>

\* {0,5}, {4,10}, {10,15}
ContainmentScenario ==
    << Seg(Absent, 0, 50), Seg(Absent, 40, 100), Seg(Absent, 100, 150) >>

\* one speaker's long segment, two short ones inside it, and the same
\* speaker again, ending when the long segment ends
NestedScenario ==
    << Seg(Given("A"), 0, 2), Seg(Given("A"), 0, 0),
       Seg(Given("B"), 1, 1), Seg(Given("A"), 2, 2) >>

Scenarios ==
    { SpeakerTurnScenario, KeywordScenario, PaddingFloorScenario,
      ContainmentScenario, NestedScenario }

\* Array.prototype.filter, given the callback's answer for each position: the
\* positions that pass, in order
RECURSIVE Filter(_, _)
Filter(keep, i) ==
    IF i > Len(keep) THEN <<>>
    ELSE (IF keep[i] THEN <<i>> ELSE <<>>) \o Filter(keep, i + 1)

findSegmentsByTimeRangeOverlap(all, start, end) ==
    Filter([i \in 1..Len(all) |-> all[i].end >= start /\ all[i].start <= end], 1)

\* the result holds the transcript's own segment objects: their positions
findSegmentsByTimeRange(all, start, end) ==
    Filter([i \in 1..Len(all) |-> all[i].start >= start /\ all[i].end <= end], 1)

\* if (firstSpeaker): undefined and "" are falsy
Truthy(sp) == sp # Absent /\ sp[1] # ""

\* Array.prototype.findIndex, given the callback's answer for each position:
\* the position after the first that passes
FindIndexAfter(test) ==
    IF \E i \in 1..Len(test) : test[i]
    THEN 1 + CHOOSE i \in 1..Len(test) : test[i] /\ \A j \in 1..(i - 1) : ~test[j]
    ELSE 0

\* the first position that passes, 0 when none does (positions count from 1
\* here, from 0 in the code, where none is -1)
FindIndex(test) ==
    IF \E i \in 1..Len(test) : test[i]
    THEN CHOOSE i \in 1..Len(test) : test[i] /\ \A j \in 1..(i - 1) : ~test[j]
    ELSE 0

MinStart(selected) ==
    CHOOSE m \in { selected[k].start : k \in 1..Len(selected) } :
        \A k \in 1..Len(selected) : m <= selected[k].start

MaxEnd(selected) ==
    CHOOSE m \in { selected[k].end : k \in 1..Len(selected) } :
        \A k \in 1..Len(selected) : m >= selected[k].end

\* the backward walk that steps over a segment of another speaker
RECURSIVE WalkBackNoBreak(_, _, _, _)
WalkBackNoBreak(all, firstSpeaker, i, start) ==
    IF i < 1 THEN start
    ELSE IF all[i].speaker = firstSpeaker
         THEN WalkBackNoBreak(all, firstSpeaker, i - 1, all[i].start)
         ELSE WalkBackNoBreak(all, firstSpeaker, i - 1, start)

\* for (let i = startIdx - 1; i >= 0; i--)
RECURSIVE WalkBack(_, _, _, _)
WalkBack(all, firstSpeaker, i, start) ==
    IF i < 1 THEN start
    ELSE IF all[i].speaker = firstSpeaker
         THEN WalkBack(all, firstSpeaker, i - 1, all[i].start)
         ELSE start

\* for (let i = endIdx + 1; i < allSegments.length; i++)
RECURSIVE WalkForward(_, _, _, _)
WalkForward(all, lastSpeaker, i, end) ==
    IF i > Len(all) THEN end
    ELSE IF all[i].speaker = lastSpeaker
         THEN WalkForward(all, lastSpeaker, i + 1, all[i].end)
         ELSE end

\* the range before padding
TurnRange(selected, all, expandToSpeakerTurn) ==
    LET start0       == MinStart(selected)
        end0         == MaxEnd(selected)
        firstSpeaker == selected[1].speaker
        lastSpeaker  == selected[Len(selected)].speaker
        startIs      == [i \in 1..Len(all) |-> all[i].start = selected[1].start]
        endIs        == [i \in 1..Len(all) |->
                            all[i].end = selected[Len(selected)].end]
    IN  IF ~expandToSpeakerTurn THEN [start |-> start0, end |-> end0]
        ELSE [start |-> IF Truthy(firstSpeaker)
                        THEN WalkBack(all, firstSpeaker,
                                      FindIndex(startIs) - 1, start0)
                        ELSE start0,
              end   |-> IF Truthy(lastSpeaker)
                        THEN WalkForward(all, lastSpeaker,
                                         FindIndex(endIs) + 1, end0)
                        ELSE end0]

\* const { paddingSeconds = 0.5, expandToSpeakerTurn = true } = options
PaddingValue(options) ==
    IF options.paddingSeconds = Absent THEN DefaultPadding
    ELSE options.paddingSeconds[1]

TurnValue(options) ==
    IF options.expandToSpeakerTurn = Absent THEN TRUE
    ELSE options.expandToSpeakerTurn[1]

Throw(message) == [kind |-> "throw", message |-> message]

Return(v) == [kind |-> "return", value |-> v]

\* the padding applied without the floor at 0
ApplyPaddingNoFloor(range, paddingSeconds) ==
    [start |-> range.start - paddingSeconds, end |-> range.end + paddingSeconds]

ApplyPadding(range, paddingSeconds) ==
    [start |-> Max(0, range.start - paddingSeconds),
     end   |-> range.end + paddingSeconds]

\* an empty selection answered with an empty range
expandToNaturalBoundariesNoCheck(selected, all, options) ==
    IF Len(selected) = 0 THEN Return([start |-> 0, end |-> 0])
    ELSE Return(ApplyPadding(TurnRange(selected, all, TurnValue(options)),
                             PaddingValue(options)))

expandToNaturalBoundaries(selected, all, options) ==
    IF Len(selected) = 0 THEN Throw("No segments selected")
    ELSE Return(ApplyPadding(TurnRange(selected, all, TurnValue(options)),
                             PaddingValue(options)))

\* the selections that are subsequences of a transcript of n segments, as
\* ascending sequences of positions
Selections(n) ==
    { f \in UNION { [1..k -> 1..n] : k \in 0..n } :
        \A i \in 1..(Len(f) - 1) : f[i] < f[i + 1] }

SelectedSegments(all, sel) == [k \in 1..Len(sel) |-> all[sel[k]]]

PaddingArgs == {Absent} \cup { Given(p) : p \in 0..MaxPad }

TurnArgs == {Absent, Given(TRUE), Given(FALSE)}

OptionArgs == [paddingSeconds : PaddingArgs, expandToSpeakerTurn : TurnArgs]

\* the window bounds tried on a transcript
WindowArgs(all) ==
    (0..MaxTime) \cup (IF all = ContainmentScenario THEN {30, 120} ELSE {})

InitTranscript ==
    /\ segments \in Transcripts \cup Scenarios
    /\ call = NoCall
    /\ ranges = <<>>
    /\ mcall = NoMerge
    /\ cli = NoRun

\* The search and boundary functions only read the transcript, so a call
\* finds it as the loader left it whatever was called before: each behaviour
\* records one call.
FindByTimeRangeCall ==
    /\ call = NoCall
    /\ \E start, end \in WindowArgs(segments) :
        /\ call' = [op     |-> "findSegmentsByTimeRange",
                    start  |-> start,
                    end    |-> end,
                    result |-> findSegmentsByTimeRange(segments, start, end)]
        /\ UNCHANGED <<segments, ranges, mcall, cli>>

ExpandCall ==
    /\ call = NoCall
    /\ \E sel \in Selections(Len(segments)), options \in OptionArgs :
        /\ call' = [op      |-> "expandToNaturalBoundaries",
                    sel     |-> sel,
                    options |-> options,
                    result  |-> expandToNaturalBoundaries(
                                    SelectedSegments(segments, sel),
                                    segments, options)]
        /\ UNCHANGED <<segments, ranges, mcall, cli>>

NextTranscript == FindByTimeRangeCall \/ ExpandCall

SpecTranscript == InitTranscript /\ [][NextTranscript]_vars

----------------------------------------------------------------------------
(* Properties of the Boundary Resolver and of the time-window search *)

Expanded == call.op = "expandToNaturalBoundaries"

ExpandReturned == Expanded /\ call.result.kind = "return"

\* the arguments and the result of a boundary expansion that returned
Selected == SelectedSegments(segments, call.sel)
Padding == PaddingValue(call.options)
Turn == TurnValue(call.options)
Range == call.result.value

NonNegative(all) == \A i \in 1..Len(all) : 0 <= all[i].start

StartBeforeEnd(all) == \A i \in 1..Len(all) : all[i].start <= all[i].end

\* C5: over a transcript in ascending start order with 0 <= start <= end
\* in every segment, for every non-empty subsequence selected, every padding
\* >= 0 and either value of expandToSpeakerTurn, the returned range contains
\* every selected segment.
ExpansionContainsSelection ==
    (/\ ExpandReturned
     /\ StartsAscending(segments)
     /\ NonNegative(segments)
     /\ StartBeforeEnd(segments)
     /\ Padding >= 0) =>
        \A k \in 1..Len(Selected) :
            /\ Range.start <= Selected[k].start
            /\ Range.end >= Selected[k].end

\* C6: over a transcript in ascending start order with start <= end in
\* every segment, for every non-empty subsequence selected and every padding
\* >= 0, the returned range has start <= end.
ExpansionRangeOrdered ==
    (/\ ExpandReturned
     /\ StartsAscending(segments)
     /\ StartBeforeEnd(segments)
     /\ Padding >= 0) =>
        Range.start <= Range.end

StartsDistinct(all) ==
    \A i, j \in 1..Len(all) : i # j => all[i].start # all[j].start

EndsDistinct(all) ==
    \A i, j \in 1..Len(all) : i # j => all[i].end # all[j].end

EndsAscending(all) ==
    \A i \in 1..(Len(all) - 1) : all[i].end <= all[i + 1].end

\* segment k speaks in the turn of segment i: a segment without a speaker
\* shares its turn with no other segment
SameTurn(all, k, i) ==
    k = i \/ (Truthy(all[i].speaker) /\ all[k].speaker = all[i].speaker)

\* the first position of the unbroken same-speaker run that ends at i
RunFirst(all, i) ==
    CHOOSE j \in 1..i :
        /\ \A k \in j..i : SameTurn(all, k, i)
        /\ j = 1 \/ ~SameTurn(all, j - 1, i)

\* the last position of the unbroken same-speaker run that begins at i
RunLast(all, i) ==
    CHOOSE j \in i..Len(all) :
        /\ \A k \in i..j : SameTurn(all, k, i)
        /\ j = Len(all) \/ ~SameTurn(all, j + 1, i)

\* the returned range is the padded range from the start of the run ending at
\* the first selected segment to the end of the run beginning at the last one
RangeIsSpeakerTurn ==
    LET first == segments[RunFirst(segments, call.sel[1])]
        last  == segments[RunLast(segments, call.sel[Len(call.sel)])]
    IN  /\ Range.start = Max(0, first.start - Padding)
        /\ Range.end = last.end + Padding

\* C7 as stated: with expandToSpeakerTurn true, over a transcript in ascending
\* start order with distinct timestamps, the range before padding runs from
\* the start of the same-speaker run ending at the first selected segment to
\* the end of the same-speaker run beginning at the last selected segment.
TurnExpansionExact ==
    (/\ ExpandReturned
     /\ Turn
     /\ StartsAscending(segments)
     /\ StartsDistinct(segments)
     /\ EndsDistinct(segments)) =>
        RangeIsSpeakerTurn

\* C7 amended: the same, over a transcript whose ends ascend as its starts
\* do (no segment ends after a later segment has ended); selecting B in
\* A:[0,2], A:[2,4], B:[4,6], A:[6,8] gives exactly [4,6] before padding.
TurnExpansionExactChronological ==
    /\ (/\ ExpandReturned
        /\ Turn
        /\ StartsAscending(segments)
        /\ EndsAscending(segments)
        /\ StartsDistinct(segments)
        /\ EndsDistinct(segments)) =>
           RangeIsSpeakerTurn
    /\ (/\ ExpandReturned
        /\ Turn
        /\ segments = SpeakerTurnScenario
        /\ call.sel = <<3>>) =>
           /\ Range.start = 40 - Padding
           /\ Range.end = 60 + Padding

\* B selected between two turns of A, no padding: exactly [4,6]
TurnExpansionWitness ==
    /\ ExpandReturned
    /\ Turn
    /\ segments = SpeakerTurnScenario
    /\ call.sel = <<3>>
    /\ call.options.paddingSeconds = Given(0)
    /\ Range = [start |-> 40, end |-> 60]

\* C8: padding is applied last, as start = max(0, start - paddingSeconds) and
\* end = end + paddingSeconds: the returned start is never negative and the
\* returned end is never clamped; a selection starting at 0.2 with padding 0.5
\* yields start 0, and [10,14] without same-speaker neighbours and padding
\* 0.5 yields {9.5, 14.5}.
PaddingAppliedLast ==
    ExpandReturned =>
        LET before == TurnRange(Selected, segments, Turn) IN
        /\ Range.start >= 0
        /\ Range.start = Max(0, before.start - Padding)
        /\ Range.end = before.end + Padding
        /\ ~Turn =>
              /\ \A k \in 1..Len(Selected) :
                    /\ Range.end >= Selected[k].end + Padding
                    /\ Range.start <= Max(0, Selected[k].start - Padding)
              /\ \E k \in 1..Len(Selected) :
                    Range.end = Selected[k].end + Padding
              /\ \E k \in 1..Len(Selected) :
                    Range.start = Max(0, Selected[k].start - Padding)
        /\ (segments = PaddingFloorScenario /\ call.options.paddingSeconds = Absent) =>
              Range.start = 0
        /\ (segments = KeywordScenario /\ call.options.paddingSeconds = Absent) =>
              Range = [start |-> 95, end |-> 145]

\* the default padding of 0.5 on a selection that starts at 0.2: the start
\* is held at 0 and the end is moved out by the whole padding
PaddingAppliedLastWitness ==
    /\ ExpandReturned
    /\ segments = PaddingFloorScenario
    /\ call.options.paddingSeconds = Absent
    /\ Range = [start |-> 0, end |-> 35]

\* C9: an empty selection fails with the error whatever allSegments and the
\* options are, and returns no TimeRange; a non-empty selection never fails
\* with it.
EmptySelectionThrows ==
    Expanded =>
        /\ Len(call.sel) = 0 <=> call.result.kind = "throw"
        /\ call.result.kind = "throw" =>
              /\ call.result.message = "No segments selected"
              /\ DOMAIN call.result = {"kind", "message"}
        /\ call.result.kind = "return" =>
              DOMAIN call.result.value = {"start", "end"}

\* nothing selected from a transcript that has segments, every option given
EmptySelectionThrowsWitness ==
    /\ Expanded
    /\ Len(call.sel) = 0
    /\ Len(segments) > 0
    /\ call.options.paddingSeconds # Absent
    /\ call.options.expandToSpeakerTurn # Absent
    /\ call.result.kind = "throw"

\* C10: findSegmentsByTimeRange returns exactly the segments with
\* segment.start >= start and segment.end <= end, in their original order; for
\* {0,5}, {4,10}, {10,15} and the window [3,12] that is {4,10} alone.
TimeRangeContainment ==
    call.op = "findSegmentsByTimeRange" =>
        /\ \A k \in 1..Len(call.result) : call.result[k] \in 1..Len(segments)
        /\ \A k \in 1..(Len(call.result) - 1) : call.result[k] < call.result[k + 1]
        /\ \A i \in 1..Len(segments) :
              (\E k \in 1..Len(call.result) : call.result[k] = i) <=>
                  (segments[i].start >= call.start /\ segments[i].end <= call.end)
        /\ (segments = ContainmentScenario /\ call.start = 30 /\ call.end = 120) =>
              call.result = <<2>>

\* the window [3,12] overlaps all three segments and contains the second
TimeRangeContainmentWitness ==
    /\ call.op = "findSegmentsByTimeRange"
    /\ segments = ContainmentScenario
    /\ call.start = 30
    /\ call.end = 120
    /\ call.result = <<2>>

----------------------------------------------------------------------------
(* Keyword search *)

\* A string is the sequence of its characters.
Chars == {"a", "A", "b"}

\* String.prototype.toLowerCase, character by character
UpperCase ==
    <<"A", "B", "C", "D", "E", "F", "G", "H", "I", "J", "K", "L", "M",
      "N", "O", "P", "Q", "R", "S", "T", "U", "V", "W", "X", "Y", "Z">>

LowerCase ==
    <<"a", "b", "c", "d", "e", "f", "g", "h", "i", "j", "k", "l", "m",
      "n", "o", "p", "q", "r", "s", "t", "u", "v", "w", "x", "y", "z">>

LowerChar(c) ==
    IF \E i \in 1..26 : UpperCase[i] = c
    THEN LowerCase[CHOOSE i \in 1..26 : UpperCase[i] = c]
    ELSE c

toLowerCase(str) == [i \in 1..Len(str) |-> LowerChar(str[i])]

\* String.prototype.includes: keyword occurs in text as a substring
Includes(text, keyword) ==
    \E i \in 0..(Len(text) - Len(keyword)) :
        SubSeq(text, i + 1, i + Len(keyword)) = keyword

Strings(n) == UNION { [1..k -> Chars] : k \in 0..n }

\* a segment with its text; the times follow the position in the transcript
TextSeg(text, i) ==
    [text |-> text, start |-> 10 * (i - 1), end |-> 10 * i, speaker |-> Absent]

TextTranscripts ==
    { [i \in 1..Len(texts) |-> TextSeg(texts[i], i)] :
        texts \in UNION { [1..n -> Strings(MaxText)] : n \in 0..MaxTextSegs } }

KeywordLists == UNION { [1..n -> Strings(MaxText)] : n \in 0..MaxKeywords }

CaseArgs == {Absent, Given(TRUE), Given(FALSE)}

\* caseSensitive = false
CaseValue(caseSensitive) ==
    IF caseSensitive = Absent THEN FALSE ELSE caseSensitive[1]

\* the text folded, the keywords left as they were given
findSegmentsByKeywordRawKeywords(all, keywords, caseSensitive) ==
    LET Text(i) == IF caseSensitive THEN all[i].text ELSE toLowerCase(all[i].text)
    IN  Filter([i \in 1..Len(all) |->
                   \E k \in 1..Len(keywords) : Includes(Text(i), keywords[k])], 1)

findSegmentsByKeyword(all, keywords, caseSensitive) ==
    LET normalizedKeywords ==
            IF caseSensitive THEN keywords
            ELSE [k \in 1..Len(keywords) |-> toLowerCase(keywords[k])]
        Text(i) == IF caseSensitive THEN all[i].text ELSE toLowerCase(all[i].text)
    IN  Filter([i \in 1..Len(all) |->
                   \E k \in 1..Len(normalizedKeywords) :
                       Includes(Text(i), normalizedKeywords[k])], 1)

InitKeyword ==
    /\ segments \in TextTranscripts
    /\ call = NoCall
    /\ ranges = <<>>
    /\ mcall = NoMerge
    /\ cli = NoRun

\* filter, toLowerCase and includes build new values: the transcript is
\* left as it was
FindByKeywordCall ==
    /\ call = NoCall
    /\ \E keywords \in KeywordLists, caseSensitive \in CaseArgs :
        /\ call' = [op            |-> "findSegmentsByKeyword",
                    all           |-> segments,
                    keywords      |-> keywords,
                    caseSensitive |-> caseSensitive,
                    result        |-> findSegmentsByKeyword(
                                          segments, keywords,
                                          CaseValue(caseSensitive))]
        /\ UNCHANGED <<segments, ranges, mcall, cli>>

NextKeyword == FindByKeywordCall

SpecKeyword == InitKeyword /\ [][NextKeyword]_vars

\* keyword occurs in text, compared exactly or after folding both to lower case
Occurs(text, keyword, exact) ==
    IF exact THEN Includes(text, keyword)
    ELSE Includes(toLowerCase(text), toLowerCase(keyword))

\* C11: findSegmentsByKeyword returns, in their original order, exactly the
\* segments whose text contains at least one of the keywords as a substring,
\* compared after lower-casing both unless caseSensitive is true, when the
\* comparison is exact; the transcript is left unchanged.
KeywordSearchExact ==
    call.op = "findSegmentsByKeyword" =>
        LET exact == call.caseSensitive = Given(TRUE) IN
        /\ \A k \in 1..Len(call.result) : call.result[k] \in 1..Len(segments)
        /\ \A k \in 1..(Len(call.result) - 1) : call.result[k] < call.result[k + 1]
        /\ \A i \in 1..Len(call.all) :
              (\E k \in 1..Len(call.result) : call.result[k] = i) <=>
                  (\E k \in 1..Len(call.keywords) :
                      Occurs(call.all[i].text, call.keywords[k], exact))
        /\ segments = call.all

\* two keywords, the second in upper case: the default comparison finds it in
\* the lower-case text of one segment of two, and nothing else matches
KeywordSearchWitness ==
    /\ call.op = "findSegmentsByKeyword"
    /\ call.caseSensitive = Absent
    /\ Len(call.keywords) = 2
    /\ Len(segments) = 2
    /\ call.result = <<2>>
    /\ \E k \in 1..2 :
          /\ call.keywords[k] # toLowerCase(call.keywords[k])
          /\ Occurs(segments[2].text, call.keywords[k], FALSE)
          /\ ~Occurs(segments[2].text, call.keywords[k], TRUE)
    /\ \A k \in 1..2 : call.keywords[k] # <<>>

----------------------------------------------------------------------------
(* Timestamps: parseTime and formatTimestamp *)

\* In this part a number of seconds is an integer count of ticks of a
\* ten-thousandth of a second, so that values finer than a millisecond exist.
Scale == 10000

\* A JavaScript value: a number, NaN, a string (the sequence of its
\* characters) or something that is neither (undefined, null, an object).
Num(n) == [kind |-> "number", value |-> n]

NaN == [kind |-> "NaN", value |-> 0]

Str(chars) == [kind |-> "string", value |-> chars]

Other == [kind |-> "other", value |-> 0]

Digits == <<"0", "1", "2", "3", "4", "5", "6", "7", "8", "9">>

IsDigit(c) == \E d \in 1..10 : Digits[d] = c

DigitValue(c) == (CHOOSE d \in 1..10 : Digits[d] = c) - 1

\* the number of digits of str from position i on, up to the first non-digit
RECURSIVE DigitRun(_, _)
DigitRun(str, i) ==
    IF i <= Len(str) /\ IsDigit(str[i]) THEN 1 + DigitRun(str, i + 1) ELSE 0

\* the value of the digit string str[from .. from + n - 1]
RECURSIVE DigitsValue(_, _, _)
DigitsValue(str, from, n) ==
    IF n = 0 THEN 0
    ELSE 10 * DigitsValue(str, from, n - 1) + DigitValue(str[from + n - 1])

\* the value in ticks of the fraction digits str[from .. from + n - 1]; a
\* digit after the fourth is below a tick and dropped
RECURSIVE FractionValue(_, _, _, _)
FractionValue(str, from, n, weight) ==
    IF n = 0 \/ weight = 0 THEN 0
    ELSE DigitValue(str[from]) * weight
         + FractionValue(str, from + 1, n - 1, weight \div 10)

\* parseFloat: the value of the longest prefix that is a decimal literal
\* (digits, then optionally a point and digits, at least one digit in all),
\* NaN when there is no such prefix
parseFloat(str) ==
    LET whole    == DigitRun(str, 1)
        point    == whole + 1 <= Len(str) /\ str[whole + 1] = "."
        fraction == IF point THEN DigitRun(str, whole + 2) ELSE 0
    IN  IF whole = 0 /\ fraction = 0 THEN NaN
        ELSE Num(DigitsValue(str, 1, whole) * Scale
                 + FractionValue(str, whole + 2, fraction, Scale \div 10))

\* String.prototype.split with a one-character separator
RECURSIVE SplitFrom(_, _, _, _)
SplitFrom(str, sep, i, piece) ==
    IF i > Len(str) THEN <<piece>>
    ELSE IF str[i] = sep THEN <<piece>> \o SplitFrom(str, sep, i + 1, <<>>)
    ELSE SplitFrom(str, sep, i + 1, Append(piece, str[i]))

Split(str, sep) == SplitFrom(str, sep, 1, <<>>)

\* a * k + b on numbers, NaN when either is NaN
TimesPlus(a, k, b) ==
    IF a.kind = "NaN" \/ b.kind = "NaN" THEN NaN
    ELSE Num(a.value * k + b.value)

\* the two-part branch adds the minutes as if they were seconds
parseTimeUnscaled(time) ==
    IF time.kind \in {"number", "NaN"} THEN time
    ELSE IF time.kind = "string" THEN
        LET str   == time.value
            parts == Split(str, ":")
        IN  IF Len(str) > 0 /\ str[Len(str)] = "s"
            THEN parseFloat(SubSeq(str, 1, Len(str) - 1))
            ELSE IF Len(parts) = 2
            THEN TimesPlus(parseFloat(parts[1]), 1, parseFloat(parts[2]))
            ELSE IF Len(parts) = 3
            THEN TimesPlus(TimesPlus(parseFloat(parts[1]), 60, parseFloat(parts[2])),
                           60, parseFloat(parts[3]))
            ELSE parseFloat(str)
    ELSE Num(0)

parseTime(time) ==
    IF time.kind \in {"number", "NaN"} THEN time
    ELSE IF time.kind = "string" THEN
        LET str   == time.value
            parts == Split(str, ":")
        IN  IF Len(str) > 0 /\ str[Len(str)] = "s"
            THEN parseFloat(SubSeq(str, 1, Len(str) - 1))
            ELSE IF Len(parts) = 2
            THEN TimesPlus(parseFloat(parts[1]), 60, parseFloat(parts[2]))
            ELSE IF Len(parts) = 3
            THEN TimesPlus(TimesPlus(parseFloat(parts[1]), 60, parseFloat(parts[2])),
                           60, parseFloat(parts[3]))
            ELSE parseFloat(str)
    ELSE Num(0)

\* Number.prototype.toString of a non-negative integer
RECURSIVE DecimalDigits(_)
DecimalDigits(n) ==
    IF n < 10 THEN <<Digits[n + 1]>>
    ELSE Append(DecimalDigits(n \div 10), Digits[(n % 10) + 1])

\* String.prototype.padStart(width, '0')
RECURSIVE padStart(_, _)
padStart(str, width) ==
    IF Len(str) >= width THEN str ELSE padStart(<<"0">> \o str, width)

\* Number.prototype.toFixed(3) of s >= 0 ticks: the nearest count of
\* thousandths, then its integer digits, a point and three decimals.  A value
\* half-way between two thousandths stands for a double just below or just
\* above the half: roundUp says which.
ToFixed3(s, roundUp) ==
    LET rest   == s % (Scale \div 1000)
        half   == (Scale \div 1000) \div 2
        millis == (s \div (Scale \div 1000))
                  + (IF rest > half \/ (rest = half /\ roundUp) THEN 1 ELSE 0)
    IN  DecimalDigits(millis \div 1000) \o <<".">>
        \o padStart(DecimalDigits(millis % 1000), 3)

formatTimestamp(seconds, roundUp) ==
    LET h == seconds \div (3600 * Scale)
        m == (seconds % (3600 * Scale)) \div (60 * Scale)
        s == seconds % (60 * Scale)
    IN  IF h > 0
        THEN DecimalDigits(h) \o <<":">> \o padStart(DecimalDigits(m), 2)
             \o <<":">> \o padStart(ToFixed3(s, roundUp), 6)
        ELSE DecimalDigits(m) \o <<":">> \o padStart(ToFixed3(s, roundUp), 6)

TimeChars == {"0", "1", ".", ":", "s", "a"}

TimeStrings == UNION { [1..n -> TimeChars] : n \in 0..MaxTimeText }

\* what parseTime is handed: a number, a string, or neither
TimeInputs ==
    { Num(n * Scale) : n \in 0..MaxTime } \cup { Str(str) : str \in TimeStrings }
    \cup {NaN, Other}

\* seconds values around the places where a field of the timestamp changes
SecondsSamples ==
    { ((hh * 60 + mm) * 60 + ss) * Scale + ticks :
        hh \in {0, 1, 12}, mm \in {0, 9, 10, 59}, ss \in {0, 9, 10, 59},
        ticks \in {0, 1, 4, 5, 6, 4999, 5000, 9994, 9995, 9996, 9999} }

InitTimestamp ==
    /\ segments = <<>>
    /\ call = NoCall
    /\ ranges = <<>>
    /\ mcall = NoMerge
    /\ cli = NoRun

ParseTimeCall ==
    /\ call = NoCall
    /\ \E time \in TimeInputs :
        call' = [op |-> "parseTime", time |-> time, seconds |-> Absent,
                 result |-> parseTime(time)]
    /\ UNCHANGED <<segments, ranges, mcall, cli>>

FormatTimestampCall ==
    /\ call = NoCall
    /\ \E seconds \in SecondsSamples, roundUp \in BOOLEAN :
        call' = [op |-> "formatTimestamp", seconds |-> seconds,
                 result |-> formatTimestamp(seconds, roundUp)]
    /\ UNCHANGED <<segments, ranges, mcall, cli>>

\* parseTime of a timestamp that formatTimestamp rendered
ParseFormattedCall ==
    /\ call.op = "formatTimestamp"
    /\ call' = [op |-> "parseTime", time |-> Str(call.result),
                seconds |-> Given(call.seconds),
                result |-> parseTime(Str(call.result))]
    /\ UNCHANGED <<segments, ranges, mcall, cli>>

NextTimestamp == ParseTimeCall \/ FormatTimestampCall \/ ParseFormattedCall

SpecTimestamp == InitTimestamp /\ [][NextTimestamp]_vars

\* C12: parseTime never yields NaN: a string that does not parse to a number
\* (such as 'abc', 'xs' or 'a:b') gives 0, so every normalised time is a number.
ParseTimeNeverNaN ==
    (call.op = "parseTime" /\ call.time.kind = "string") =>
        /\ call.result.kind = "number"
        /\ (\A i \in 1..Len(call.time.value) : ~IsDigit(call.time.value[i]))
               => call.result.value = 0

\* C13: for every t in [0, 3600) seconds, rendering t with formatTimestamp and
\* parsing the text back with parseTime (its minutes:seconds branch) gives a
\* number within one millisecond of t.
RoundTripWithinMillisecond ==
    (/\ call.op = "parseTime"
     /\ call.seconds # Absent
     /\ call.seconds[1] < 3600 * Scale) =>
        /\ Len(Split(call.time.value, ":")) = 2
        /\ call.result.kind = "number"
        /\ call.result.value - call.seconds[1] <= Scale \div 1000
        /\ call.seconds[1] - call.result.value <= Scale \div 1000

\* a value of some minutes whose seconds were rounded on the way
RoundTripWitness ==
    /\ call.op = "parseTime"
    /\ call.seconds # Absent
    /\ call.seconds[1] < 3600 * Scale
    /\ call.seconds[1] >= 60 * Scale
    /\ call.result.kind = "number"
    /\ call.result.value # call.seconds[1]

AllDigits(str) == \A i \in 1..Len(str) : IsDigit(str[i])

\* two integer digits, a point, three decimals
SecondsFieldShape(field) ==
    /\ Len(field) = 6
    /\ field[3] = "."
    /\ \A i \in {1, 2, 4, 5, 6} : IsDigit(field[i])

HourlessShape(fields) ==
    /\ Len(fields) = 2
    /\ Len(fields[1]) >= 1
    /\ AllDigits(fields[1])
    /\ SecondsFieldShape(fields[2])

HourShape(fields) ==
    /\ Len(fields) = 3
    /\ Len(fields[1]) >= 1
    /\ AllDigits(fields[1])
    /\ Len(fields[2]) = 2
    /\ AllDigits(fields[2])
    /\ SecondsFieldShape(fields[3])

\* C14: formatTimestamp renders a non-negative seconds value as H:MM:SS.mmm
\* when it is at least one hour and as M:SS.mmm otherwise, the seconds field
\* always two integer digits in 00..59 followed by three decimals and the
\* minutes field in 0..59.
TimestampFieldsInRange ==
    call.op = "formatTimestamp" =>
        LET fields == Split(call.result, ":")
            n      == Len(fields)
        IN  /\ IF call.seconds >= 3600 * Scale
               THEN HourShape(fields) ELSE HourlessShape(fields)
            /\ DigitsValue(fields[n - 1], 1, Len(fields[n - 1])) \in 0..59
            /\ DigitsValue(fields[n], 1, 2) \in 0..59

----------------------------------------------------------------------------
(* The transcript loader: parseTranscript and normalizeSegments *)

Undefined == [kind |-> "undefined", value |-> 0]

Null == [kind |-> "null", value |-> 0]

Arr(items) == [kind |-> "array", value |-> items]

Obj(fields) == [kind |-> "object", value |-> fields]

\* what a || b and if (v) take for true
JsTruthy(v) ==
    IF v.kind = "number" THEN v.value # 0
    ELSE IF v.kind = "string" THEN v.value # <<>>
    ELSE v.kind \in {"array", "object"}

\* a || b || c: the first operand that is truthy, the last one when none is
OrElse(operands) ==
    LET truthy == { i \in 1..Len(operands) : JsTruthy(operands[i]) }
    IN  IF truthy = {} THEN operands[Len(operands)]
        ELSE operands[CHOOSE i \in truthy : \A j \in truthy : i <= j]

normalizeSegment(seg) ==
    [text       |-> OrElse(<<seg.text, seg.transcript, seg.content, Str(<<>>)>>),
     start      |-> parseTime(OrElse(<<seg.start, seg.start_time, seg.startTime,
                                       Num(0)>>)),
     end        |-> parseTime(OrElse(<<seg.end, seg.end_time, seg.endTime,
                                       Num(0)>>)),
     speaker    |-> OrElse(<<seg.speaker, seg.speaker_label, seg.speakerId>>),
     confidence |-> seg.confidence]

normalizeSegments(rawSegments) ==
    [i \in 1..Len(rawSegments) |-> normalizeSegment(rawSegments[i])]

\* { ...rest, segments: normalizeSegments(value) }; a value that is no array
\* has no map method
LoadSegments(value, duration) ==
    IF value.kind = "array"
    THEN Return([segments |-> normalizeSegments(value.value),
                 duration |-> duration])
    ELSE Throw("TypeError")

parseTranscript(file) ==
    IF ~file.exists THEN Throw("Transcript file not found")
    ELSE IF ~file.valid THEN Throw("SyntaxError")
    ELSE
        LET data == file.data IN
        IF data.kind = "array" THEN LoadSegments(data, Undefined)
        \* reading a property of null throws
        ELSE IF data.kind = "null" THEN Throw("TypeError")
        \* every property of a number or a string document is undefined
        ELSE IF data.kind # "object" THEN Throw("Unrecognized transcript format")
        ELSE IF JsTruthy(data.value.segments)
        THEN LoadSegments(data.value.segments, data.value.duration)
        ELSE IF JsTruthy(data.value.results) \/ JsTruthy(data.value.utterances)
        THEN LoadSegments(OrElse(<<data.value.results, data.value.utterances>>),
                          Undefined)
        ELSE Throw("Unrecognized transcript format")

\* a raw segment: every alias holds a value or is undefined
RawSeg(text, transcript, content, start, start_time, startTime, end, end_time, endTime, speaker) ==
    [text |-> text, transcript |-> transcript, content |-> content,
     start |-> start, start_time |-> start_time, startTime |-> startTime,
     end |-> end, end_time |-> end_time, endTime |-> endTime,
     speaker |-> speaker, speaker_label |-> Undefined, speakerId |-> Undefined,
     confidence |-> Undefined]

\* raw segments with every combination of aliases, 0 and "" among the values
AliasSegments ==
    { RawSeg(text, transcript, content, start, start_time, startTime,
             end, end_time, endTime, Undefined) :
        text \in {Undefined, Str(<<>>), Str(<<"a">>)},
        transcript \in {Undefined, Str(<<"b">>)},
        content \in {Undefined, Str(<<"A">>)},
        start \in {Undefined, Num(0), Num(2 * Scale)},
        start_time \in {Undefined, Num(0), Str(<<"1", "s">>)},
        startTime \in {Undefined, Str(<<"0", ":", "0", "3">>)},
        end \in {Undefined, Num(0), Num(2 * Scale)},
        end_time \in {Undefined, Num(Scale)},
        endTime \in {Undefined, Num(3 * Scale)} }

\* a few raw segments to build longer lists from
PlainSegments ==
    { RawSeg(Str(<<"a">>), Undefined, Undefined, Num(0), Undefined, Undefined,
             Num(Scale), Undefined, Undefined, Undefined),
      RawSeg(Str(<<"b">>), Undefined, Undefined, Num(2 * Scale), Undefined,
             Undefined, Num(Scale), Undefined, Undefined, Str(<<"A">>)),
      RawSeg(Undefined, Str(<<"b">>), Undefined, Undefined, Num(Scale), Undefined,
             Undefined, Num(3 * Scale), Undefined, Undefined) }

PlainLists == UNION { [1..n -> PlainSegments] : n \in 0..MaxRawSegs }

\* the value of .segments, .results or .utterances
ListValues == {Undefined, Null, Num(Scale)} \cup { Arr(list) : list \in PlainLists }

Documents ==
    { Arr(<<seg>>) : seg \in AliasSegments }
    \cup { Arr(list) : list \in PlainLists }
    \cup { Obj([segments |-> s, results |-> r, utterances |-> u, duration |-> d]) :
             s \in ListValues, r \in ListValues, u \in ListValues,
             d \in {Undefined, Num(9 * Scale)} }
    \cup {Null, Num(Scale), Str(<<"a">>)}

Files ==
    { [exists |-> FALSE, valid |-> FALSE, data |-> Undefined],
      [exists |-> TRUE, valid |-> FALSE, data |-> Undefined] }
    \cup { [exists |-> TRUE, valid |-> TRUE, data |-> d] : d \in Documents }

InitLoader ==
    /\ segments = <<>>
    /\ call = NoCall
    /\ ranges = <<>>
    /\ mcall = NoMerge
    /\ cli = NoRun

ParseTranscriptCall ==
    /\ call = NoCall
    /\ \E file \in Files :
        call' = [op |-> "parseTranscript", file |-> file,
                 result |-> parseTranscript(file)]
    /\ UNCHANGED <<segments, ranges, mcall, cli>>

NextLoader == ParseTranscriptCall

SpecLoader == InitLoader /\ [][NextLoader]_vars

Loaded == call.op = "parseTranscript" /\ call.file.exists /\ call.file.valid

Document == call.file.data

\* the document is an object whose property holds a value that counts
Exposes(property) ==
    Document.kind = "object" /\ JsTruthy(Document.value[property])

\* C15: the loader detects the document's shape in a fixed priority, a bare
\* array, else an object exposing .segments, else .results, else .utterances;
\* a document matching none of these fails with the unrecognized-format error
\* and no Transcript is returned.
ShapePriority ==
    Loaded =>
        IF Document.kind = "array"
        THEN call.result = LoadSegments(Document, Undefined)
        ELSE IF Exposes("segments")
        THEN call.result = LoadSegments(Document.value.segments,
                                        Document.value.duration)
        ELSE IF Exposes("results")
        THEN call.result = LoadSegments(Document.value.results, Undefined)
        ELSE IF Exposes("utterances")
        THEN call.result = LoadSegments(Document.value.utterances, Undefined)
        ELSE call.result = Throw("Unrecognized transcript format")

\* the raw segments that were normalised
RawSegments ==
    IF Document.kind = "array" THEN Document.value
    ELSE IF Exposes("segments") THEN Document.value.segments.value
    ELSE IF Exposes("results") THEN Document.value.results.value
    ELSE Document.value.utterances.value

\* the value of the first alias that is present, the default when none is
FirstPresent(aliases, default) ==
    LET present == { i \in 1..Len(aliases) : aliases[i] # Undefined }
    IN  IF present = {} THEN default
        ELSE aliases[CHOOSE i \in present : \A j \in present : i <= j]

FirstStart(raw) ==
    parseTime(FirstPresent(<<raw.start, raw.start_time, raw.startTime>>, Num(0)))

FirstEnd(raw) ==
    parseTime(FirstPresent(<<raw.end, raw.end_time, raw.endTime>>, Num(0)))

\* C16: each canonical field is taken from the first alias that is present
\* (start, start_time, startTime; end, end_time, endTime; text, transcript,
\* content), also when the value present is 0 or the empty string; the defaults
\* 0 and "" are used only when no alias is present.
AliasFirstPresent ==
    (Loaded /\ call.result.kind = "return") =>
        \A i \in 1..Len(RawSegments) :
            LET raw == RawSegments[i]
                seg == call.result.value.segments[i]
            IN  /\ seg.text = FirstPresent(<<raw.text, raw.transcript, raw.content>>,
                                           Str(<<>>))
                /\ seg.start = FirstStart(raw)
                /\ seg.end = FirstEnd(raw)

\* C17: the loader yields one segment per raw segment, in the same order, and
\* every raw segment whose first-present start and end normalise to s <= e is
\* loaded with start = s and end = e.
LoaderKeepsOrderedTimes ==
    (Loaded /\ call.result.kind = "return") =>
        /\ Len(call.result.value.segments) = Len(RawSegments)
        /\ \A i \in 1..Len(RawSegments) :
              LET s   == FirstStart(RawSegments[i])
                  e   == FirstEnd(RawSegments[i])
                  seg == call.result.value.segments[i]
              IN  (s.kind = "number" /\ e.kind = "number" /\ s.value <= e.value)
                      => (seg.start = s /\ seg.end = e)

----------------------------------------------------------------------------
(* The extraction command: generateFFmpegCommand *)

\* a time in tenths of a second as ticks
Ticks(t) == t * (Scale \div 10)

\* Number.prototype.toString of a number given in tenths: a sign when
\* negative, the integer digits, and a point and one decimal when there is one
NumberToString(tenths) ==
    LET abs == IF tenths < 0 THEN 0 - tenths ELSE tenths
    IN  (IF tenths < 0 THEN <<"-">> ELSE <<>>)
        \o DecimalDigits(abs \div 10)
        \o (IF abs % 10 = 0 THEN <<>> ELSE <<".", Digits[(abs % 10) + 1]>>)

\* one element of parts: the directive and what it carries
Part(flag, arg) == [flag |-> flag, arg |-> arg]

\* `afade=t=${type}:st=${st}:d=${d}`
Afade(type, st, d) == [type |-> type, st |-> st, d |-> d]

\* a fade of 0 counts as requested
FadeRequestedWhenGiven(fade) == fade # Absent

\* falsy: undefined and 0
FadeRequested(fade) == fade # Absent /\ fade[1] # 0

\* codec = 'copy'
CodecValue(codec) == IF codec = Absent THEN "copy" ELSE codec[1]

\* the extension compared as it is written
ExtensionExact(outputPath) ==
    LET pieces == Split(outputPath, ".")
    IN  pieces[Len(pieces)]

\* outputPath.split('.').pop()?.toLowerCase()
Extension(outputPath) ==
    LET pieces == Split(outputPath, ".")
    IN  toLowerCase(pieces[Len(pieces)])

\* the flags pushed for the extension, none for any other
CodecParts(ext) ==
    IF ext = <<"m", "p", "3">> THEN <<Part("-c:a libmp3lame -q:a 2", <<>>)>>
    ELSE IF ext = <<"a", "a", "c">> \/ ext = <<"m", "4", "a">>
    THEN <<Part("-c:a aac -b:a 192k", <<>>)>>
    ELSE IF ext = <<"w", "a", "v">> THEN <<Part("-c:a pcm_s16le", <<>>)>>
    ELSE IF ext = <<"m", "p", "4">>
    THEN <<Part("-c:v copy -c:a aac -b:a 192k", <<>>)>>
    ELSE <<>>

\* the filters of the -af directive, fade-in first
Filters(duration, fadeIn, fadeOut) ==
    (IF FadeRequested(fadeIn)
     THEN <<Afade("in", NumberToString(0), NumberToString(fadeIn[1]))>>
     ELSE <<>>)
    \o (IF FadeRequested(fadeOut)
        THEN <<Afade("out", NumberToString(duration - fadeOut[1]),
                     NumberToString(fadeOut[1]))>>
        ELSE <<>>)

\* the seek always ahead of the input
generateFFmpegCommandSeekFirst(options) ==
    LET codec    == CodecValue(options.codec)
        duration == options.end - options.start
        seek     == <<Part("-ss", formatTimestamp(Ticks(options.start), TRUE))>>
    IN  <<Part("ffmpeg", <<>>), Part("-y", <<>>)>>
        \o seek
        \o <<Part("-i", options.inputPath)>>
        \o <<Part("-to", formatTimestamp(Ticks(options.end), TRUE))>>
        \o (IF FadeRequested(options.fadeIn) \/ FadeRequested(options.fadeOut)
            THEN <<Part("-af", Filters(duration, options.fadeIn, options.fadeOut))>>
            ELSE <<>>)
        \o (IF codec = "copy" THEN <<Part("-c copy", <<>>)>>
            ELSE CodecParts(Extension(options.outputPath)))
        \o <<Part("output", options.outputPath)>>

\* the parts of the command in order; the command is the parts joined by blanks
generateFFmpegCommand(options) ==
    LET codec    == CodecValue(options.codec)
        duration == options.end - options.start
        seek     == <<Part("-ss", formatTimestamp(Ticks(options.start), TRUE))>>
    IN  <<Part("ffmpeg", <<>>), Part("-y", <<>>)>>
        \o (IF codec = "copy" THEN seek ELSE <<>>)
        \o <<Part("-i", options.inputPath)>>
        \o (IF codec # "copy" THEN seek ELSE <<>>)
        \o <<Part("-to", formatTimestamp(Ticks(options.end), TRUE))>>
        \o (IF FadeRequested(options.fadeIn) \/ FadeRequested(options.fadeOut)
            THEN <<Part("-af", Filters(duration, options.fadeIn, options.fadeOut))>>
            ELSE <<>>)
        \o (IF codec = "copy" THEN <<Part("-c copy", <<>>)>>
            ELSE CodecParts(Extension(options.outputPath)))
        \o <<Part("output", options.outputPath)>>

Path(name, ext) == name \o <<".">> \o ext

\* extensions as written in the output path
Extensions ==
    { <<"m", "p", "3">>, <<"M", "P", "3">>, <<"a", "a", "c">>, <<"m", "4", "a">>,
      <<"M", "4", "a">>, <<"w", "a", "v">>, <<"W", "a", "v">>, <<"m", "p", "4">>,
      <<"o", "g", "g">>, <<"m", "p">>, <<>> }

OutputPaths ==
    { Path(<<"o">>, ext) : ext \in Extensions }
    \cup { <<"o">>, <<"w", "a", "v">>, Path(Path(<<"o">>, <<"m", "p", "3">>), <<"w", "a", "v">>),
           Path(<<"o">>, <<"m", "p", "3", "/", "o">>) }

CodecArgs == {Absent, Given("copy"), Given("reencode"), Given("aac")}

FadeArgs == {Absent} \cup { Given(f) : f \in 0..MaxFade }

ClipOptions ==
    [inputPath : {Path(<<"i">>, <<"m", "p", "3">>)}, outputPath : OutputPaths,
     start : 0..MaxTime, end : 0..MaxTime, codec : CodecArgs,
     fadeIn : FadeArgs, fadeOut : FadeArgs]

InitCommand ==
    /\ segments = <<>>
    /\ call = NoCall
    /\ ranges = <<>>
    /\ mcall = NoMerge
    /\ cli = NoRun

GenerateCommandCall ==
    /\ call = NoCall
    /\ \E options \in ClipOptions :
        call' = [op |-> "generateFFmpegCommand", options |-> options,
                 result |-> generateFFmpegCommand(options)]
    /\ UNCHANGED <<segments, ranges, mcall, cli>>

NextCommand == GenerateCommandCall

SpecCommand == InitCommand /\ [][NextCommand]_vars

Generated == call.op = "generateFFmpegCommand"

\* the positions of the parts with the flag
PartsWith(flag) == { i \in 1..Len(call.result) : call.result[i].flag = flag }

CopyMode == call.options.codec \in {Absent, Given("copy")}

\* C18: every generated command has exactly one seek directive, before the
\* input in copy mode (the default when codec is absent), after the input and
\* before the stop position with any other codec; the output path is always
\* the last element.
SeekPlacement ==
    Generated =>
        /\ Cardinality(PartsWith("-ss")) = 1
        /\ Cardinality(PartsWith("-i")) = 1
        /\ Cardinality(PartsWith("-to")) = 1
        /\ \A ss \in PartsWith("-ss"), in \in PartsWith("-i"), to \in PartsWith("-to") :
              /\ call.result[ss].arg = formatTimestamp(Ticks(call.options.start), TRUE)
              /\ IF CopyMode THEN ss < in ELSE in < ss /\ ss < to
        /\ call.result[Len(call.result)] = Part("output", call.options.outputPath)

SeekPlacementWitness ==
    /\ Generated
    /\ call.options.codec = Given("reencode")
    /\ call.options.start > 0
    /\ \E i \in 1..Len(call.result) :
          /\ call.result[i].flag = "-i"
          /\ call.result[i + 1].flag = "-ss"
          /\ call.result[i + 2].flag = "-to"

CodecFlags ==
    {"-c copy", "-c:a libmp3lame -q:a 2", "-c:a aac -b:a 192k", "-c:a pcm_s16le",
     "-c:v copy -c:a aac -b:a 192k"}

\* the flags of the codec parts of the command, in order
CodecFlagsUsed ==
    LET used == { i \in 1..Len(call.result) : call.result[i].flag \in CodecFlags }
    IN  [i \in used |-> call.result[i].flag]

\* the output path has an extension: the text after its last dot, folded to
\* lower case
HasExtension == \E i \in 1..Len(call.options.outputPath) : call.options.outputPath[i] = "."

LastDot ==
    CHOOSE i \in 1..Len(call.options.outputPath) :
        /\ call.options.outputPath[i] = "."
        /\ \A j \in (i + 1)..Len(call.options.outputPath) : call.options.outputPath[j] # "."

OutputExtension ==
    toLowerCase(SubSeq(call.options.outputPath, LastDot + 1, Len(call.options.outputPath)))

OnlyFlag(flag) ==
    \E i \in 1..Len(call.result) : CodecFlagsUsed = (i :> flag)

Duration == call.options.end - call.options.start

FadeInAsked == call.options.fadeIn \notin {Absent, Given(0)}

FadeOutAsked == call.options.fadeOut \notin {Absent, Given(0)}

\* the filters the claim describes for the options of the call
ExpectedFilters ==
    (IF FadeInAsked
     THEN <<Afade("in", <<"0">>, NumberToString(call.options.fadeIn[1]))>>
     ELSE <<>>)
    \o (IF FadeOutAsked
        THEN <<Afade("out", NumberToString(Duration - call.options.fadeOut[1]),
                     NumberToString(call.options.fadeOut[1]))>>
        ELSE <<>>)

\* C20: a filter graph is emitted exactly when a non-zero fadeIn or fadeOut is
\* requested; the fade-in starts at 0 and lasts fadeIn, the fade-out starts at
\* exactly (end - start) - fadeOut and lasts fadeOut, with no clamping when
\* that start is negative.
FadeFilters ==
    Generated =>
        /\ (PartsWith("-af") # {}) <=> (FadeInAsked \/ FadeOutAsked)
        /\ Cardinality(PartsWith("-af")) <= 1
        /\ \A af \in PartsWith("-af") : call.result[af].arg = ExpectedFilters

\* both fades asked, the fade-out longer than the clip: its start is negative
FadeFiltersWitness ==
    /\ Generated
    /\ FadeInAsked
    /\ FadeOutAsked
    /\ Duration > 0
    /\ Duration < call.options.fadeOut[1]
    /\ \E af \in PartsWith("-af") :
          /\ Len(call.result[af].arg) = 2
          /\ call.result[af].arg[2].st[1] = "-"

----------------------------------------------------------------------------
(* Batch commands and the insight adapter *)

\* String.prototype.replace with a string pattern: the first occurrence only
ReplaceFirst(str, pattern, replacement) ==
    LET at == { i \in 1..(Len(str) - Len(pattern) + 1) :
                  SubSeq(str, i, i + Len(pattern) - 1) = pattern }
    IN  IF at = {} THEN str
        ELSE LET i == CHOOSE i \in at : \A j \in at : i <= j
             IN  SubSeq(str, 1, i - 1) \o replacement
                 \o SubSeq(str, i + Len(pattern), Len(str))

\* String(i + 1).padStart(3, '0'), positions counting from 1 here
SequenceNumber(i) == padStart(DecimalDigits(i), 3)

\* { ...base, ...options }: a property that options holds wins
Spread(base, options) ==
    [inputPath  |-> IF options.inputPath = Absent THEN base.inputPath
                    ELSE options.inputPath[1],
     outputPath |-> IF options.outputPath = Absent THEN base.outputPath
                    ELSE options.outputPath[1],
     start      |-> IF options.start = Absent THEN base.start ELSE options.start[1],
     end        |-> IF options.end = Absent THEN base.end ELSE options.end[1],
     codec      |-> options.codec,
     fadeIn     |-> options.fadeIn,
     fadeOut    |-> options.fadeOut]

\* the sequence number written without padding
generateMultiClipCommandUnpadded(inputPath, clipRanges, outputPattern, options) ==
    [i \in 1..Len(clipRanges) |->
        generateFFmpegCommand(Spread(
            [inputPath  |-> inputPath,
             outputPath |-> ReplaceFirst(outputPattern, <<"%", "d">>,
                                         DecimalDigits(i)),
             start      |-> clipRanges[i].start,
             end        |-> clipRanges[i].end],
            options))]

generateMultiClipCommand(inputPath, clipRanges, outputPattern, options) ==
    [i \in 1..Len(clipRanges) |->
        generateFFmpegCommand(Spread(
            [inputPath  |-> inputPath,
             outputPath |-> ReplaceFirst(outputPattern, <<"%", "d">>,
                                         SequenceNumber(i)),
             start      |-> clipRanges[i].start,
             end        |-> clipRanges[i].end],
            options))]

\* Number.prototype.toFixed(0) of a time >= 0 in tenths: the nearest integer,
\* a half rounded up
ToFixed0(tenths) == DecimalDigits((tenths + 5) \div 10)

\* String.prototype.replace(/\.[^.]+$/, replacement): the last dot and what
\* follows it, when something follows it; the string itself otherwise
ReplaceExtension(path, replacement) ==
    LET dots == { i \in 1..Len(path) : path[i] = "." }
        last == CHOOSE i \in dots : \A j \in dots : j <= i
    IN  IF dots = {} THEN path
        ELSE IF last = Len(path) THEN path
        ELSE SubSeq(path, 1, last - 1) \o replacement

clipFromInsight(mediaPath, insight, options) ==
    LET outputPath ==
            IF options.outputPath # Absent /\ options.outputPath[1] # <<>>
            THEN options.outputPath[1]
            ELSE ReplaceExtension(mediaPath,
                     <<"_", "c", "l", "i", "p", "_">>
                     \o ToFixed0(insight.timestamp_start)
                     \o <<".", "m", "p", "3">>)
    IN  generateFFmpegCommand(Spread(
            [inputPath  |-> mediaPath,
             outputPath |-> outputPath,
             start      |-> insight.timestamp_start,
             end        |-> insight.timestamp_end],
            options))

clipsFromInsights(mediaPath, insights, outputDir, options) ==
    [i \in 1..Len(insights) |->
        LET filename == <<"c", "l", "i", "p", "_">> \o SequenceNumber(i) \o <<"_">>
                        \o ToFixed0(insights[i].timestamp_start)
                        \o <<"s", ".", "m", "p", "3">>
            outputPath == outputDir \o <<"/">> \o filename
        IN  clipFromInsight(mediaPath, insights[i],
                            [options EXCEPT !.outputPath = Given(outputPath)])]

\* Partial<ClipOptions>: any property may be left out
PartialOptions ==
    [inputPath  : {Absent, Given(<<"x", ".", "w", "a", "v">>)},
     outputPath : {Absent, Given(<<"x", ".", "m", "p", "3">>)},
     start      : {Absent, Given(1)},
     end        : {Absent},
     codec      : {Absent, Given("reencode")},
     fadeIn     : {Absent, Given(1)},
     fadeOut    : {Absent}]

\* any list of ranges, start <= end or not
ClipRanges == [start : 0..MaxTime, end : 0..MaxTime]

ClipRangeLists == UNION { [1..n -> ClipRanges] : n \in 0..MaxClips }

OutputPatterns ==
    { <<"o", "%", "d", ".", "m", "p", "3">>, <<"%", "d", "%", "d">>,
      <<"o", ".", "m", "p", "3">> }

MediaPaths == { <<"i", ".", "m", "p", "3">>, <<"i">> }

\* timestamp_start and timestamp_end in tenths; 12.0 and 45.0 are the starts of
\* the documented scenario
Insights ==
    { [timestamp_start |-> s, timestamp_end |-> e] :
        s \in {0, 4, 5, 120, 450}, e \in {0, 130, 460} }

InsightLists == UNION { [1..n -> Insights] : n \in 0..MaxClips }

InitBatch ==
    /\ segments = <<>>
    /\ call = NoCall
    /\ ranges = <<>>
    /\ mcall = NoMerge
    /\ cli = NoRun

MultiClipCall ==
    /\ call = NoCall
    /\ \E clipRanges \in ClipRangeLists, outputPattern \in OutputPatterns,
          options \in PartialOptions :
        call' = [op |-> "generateMultiClipCommand",
                 inputPath |-> <<"i", ".", "m", "p", "3">>,
                 ranges |-> clipRanges, outputPattern |-> outputPattern,
                 options |-> options,
                 result |-> generateMultiClipCommand(
                                <<"i", ".", "m", "p", "3">>, clipRanges,
                                outputPattern, options)]
    /\ UNCHANGED <<segments, ranges, mcall, cli>>

ClipFromInsightCall ==
    /\ call = NoCall
    /\ \E mediaPath \in MediaPaths, insight \in Insights, options \in PartialOptions :
        call' = [op |-> "clipFromInsight", mediaPath |-> mediaPath,
                 insight |-> insight, options |-> options,
                 result |-> clipFromInsight(mediaPath, insight, options)]
    /\ UNCHANGED <<segments, ranges, mcall, cli>>

ClipsFromInsightsCall ==
    /\ call = NoCall
    /\ \E mediaPath \in MediaPaths, insights \in InsightLists,
          options \in PartialOptions :
        call' = [op |-> "clipsFromInsights", mediaPath |-> mediaPath,
                 insights |-> insights, outputDir |-> <<"d">>,
                 options |-> options,
                 result |-> clipsFromInsights(mediaPath, insights, <<"d">>, options)]
    /\ UNCHANGED <<segments, ranges, mcall, cli>>

NextBatch == MultiClipCall \/ ClipFromInsightCall \/ ClipsFromInsightsCall

SpecBatch == InitBatch /\ [][NextBatch]_vars

\* what a command carries behind a flag
ArgOf(command, flag) ==
    command[CHOOSE i \in 1..Len(command) : command[i].flag = flag].arg

\* i as a three-digit number
ThreeDigits(i) ==
    <<Digits[((i \div 100) % 10) + 1], Digits[((i \div 10) % 10) + 1],
      Digits[(i % 10) + 1]>>

\* the command reads input and cuts from start to end
CutsRange(command, input, start, end) ==
    /\ ArgOf(command, "-i") = input
    /\ ArgOf(command, "-ss") = formatTimestamp(Ticks(start), TRUE)
    /\ ArgOf(command, "-to") = formatTimestamp(Ticks(end), TRUE)

\* path is pattern with a placeholder replaced by text
Fills(path, pattern, text) ==
    \E i \in 1..(Len(pattern) - 1) :
        /\ SubSeq(pattern, i, i + 1) = <<"%", "d">>
        /\ path = SubSeq(pattern, 1, i - 1) \o text
                  \o SubSeq(pattern, i + 2, Len(pattern))

\* codec and fades only: neither a path nor a bound of the range
ProcessingOnly(options) ==
    /\ options.inputPath = Absent
    /\ options.outputPath = Absent
    /\ options.start = Absent
    /\ options.end = Absent

\* C21: generateMultiClipCommand, given N ranges, an output pattern containing
\* the placeholder and any processing options, returns N commands in the order
\* of the ranges; the i-th command cuts range i from the given input and writes
\* to the pattern with the placeholder replaced by i as a three-digit number
\* counted from 1, so the N output paths are pairwise distinct.
MultiClipExact ==
    (/\ call.op = "generateMultiClipCommand"
     /\ \E i \in 1..(Len(call.outputPattern) - 1) :
           SubSeq(call.outputPattern, i, i + 1) = <<"%", "d">>
     /\ ProcessingOnly(call.options)) =>
        /\ Len(call.result) = Len(call.ranges)
        /\ \A i \in 1..Len(call.ranges) :
              /\ CutsRange(call.result[i], call.inputPath,
                           call.ranges[i].start, call.ranges[i].end)
              /\ Fills(ArgOf(call.result[i], "output"), call.outputPattern,
                       ThreeDigits(i))
        /\ \A i, j \in 1..Len(call.result) :
              i # j => ArgOf(call.result[i], "output") # ArgOf(call.result[j], "output")

\* two different ranges re-encoded into o001.mp3 and o002.mp3
MultiClipWitness ==
    /\ call.op = "generateMultiClipCommand"
    /\ call.options.codec = Given("reencode")
    /\ ProcessingOnly(call.options)
    /\ Len(call.ranges) = 2
    /\ call.ranges[1] # call.ranges[2]
    /\ ArgOf(call.result[1], "output") = <<"o", "0", "0", "1", ".", "m", "p", "3">>
    /\ ArgOf(call.result[2], "output") = <<"o", "0", "0", "2", ".", "m", "p", "3">>

\* C22: clipFromInsight maps the insight one to one: for every insight and
\* every options value the command's input is mediaPath and its start and end
\* are insight.timestamp_start and insight.timestamp_end.
InsightMappedExactly ==
    call.op = "clipFromInsight" =>
        CutsRange(call.result, call.mediaPath,
                  call.insight.timestamp_start, call.insight.timestamp_end)

\* C23: clipsFromInsights returns one command per insight in the given order,
\* the i-th file name carrying the three-digit sequence number i and ending
\* with the insight's rounded start time, zero-padded to three digits and
\* followed by 's' (starts 12.0 and 45.0 give _012s and _045s).
InsightBatchNames ==
    call.op = "clipsFromInsights" =>
        /\ Len(call.result) = Len(call.insights)
        /\ \A i \in 1..Len(call.insights) :
              ArgOf(call.result[i], "output") =
                  call.outputDir \o <<"/", "c", "l", "i", "p", "_">>
                  \o ThreeDigits(i) \o <<"_">>
                  \o padStart(ToFixed0(call.insights[i].timestamp_start), 3)
                  \o <<"s", ".", "m", "p", "3">>


-----------------------------------------------------------------------------
\* The command-line program: main, its argument record and its steps.  The
\* arguments are the record parseArgs returns; an option not given is Absent.
\* Times are tenths of a second, paths and keywords are character sequences,
\* speaker names are strings.

\* String.prototype.toLowerCase on the speaker names of the model
SpeakerLowerCase(name) ==
    IF name = "A" THEN "a"
    ELSE IF name = "B" THEN "b"
    ELSE IF name = "C" THEN "c"
    ELSE name

\* segment.speaker?.toLowerCase() === speaker.toLowerCase(): a segment
\* without speaker never matches
findSegmentsBySpeaker(all, speaker) ==
    Filter([i \in 1..Len(all) |->
               /\ all[i].speaker # Absent
               /\ SpeakerLowerCase(all[i].speaker[1]) = SpeakerLowerCase(speaker)], 1)

\* a loaded segment: text, times by position, speaker
CliSeg(text, speaker, i) ==
    [text |-> text, start |-> 10 * (i - 1), end |-> 10 * i, speaker |-> speaker]

\* what the transcript file loads to
CliTranscripts ==
    { <<>>,
      <<CliSeg(<<"a">>, Given("A"), 1), CliSeg(<<"b">>, Given("B"), 2),
        CliSeg(<<"a", "b">>, Absent, 3)>> }

\* the record of an invocation without arguments
NoArgs ==
    [given |-> FALSE, help |-> FALSE, input |-> Absent, transcript |-> Absent,
     output |-> Absent, start |-> Absent, end |-> Absent, keywords |-> Absent,
     speaker |-> Absent, padding |-> Absent, codec |-> Absent,
     fadeIn |-> Absent, fadeOut |-> Absent, dryRun |-> FALSE]

\* the records parseArgs returns; given: process.argv.length > 2
CliArgs ==
    {NoArgs} \cup
    [given      : {TRUE},
     help       : BOOLEAN,
     input      : {Absent, Given(<<"i", ".", "m", "p", "3">>), Given(<<"i">>)},
     transcript : {Absent, Given(<<"t">>)},
     output     : {Absent, Given(<<"o", ".", "m", "p", "3">>)},
     start      : {Absent, Given(0)},
     end        : {Absent, Given(MaxTime)},
     keywords   : {Absent, Given(<< <<"A">> >>), Given(<< <<"z">> >>)},
     speaker    : {Absent, Given("b"), Given("C")},
     padding    : {Absent},
     codec      : {Absent},
     fadeIn     : {Absent},
     fadeOut    : {Absent},
     dryRun     : BOOLEAN]

\* the exit codes of the spawned tool
ExitCodes == {0, 1, 2}

\* lines 482-510 without the exits on an empty search result
SearchStepNoExit(args, loads, all) ==
    IF ~loads
    THEN [exit |-> Given(1), matches |-> Absent, expansions |-> 0,
          range |-> Absent, printed |-> <<"error">>]
    ELSE LET found ==
                 IF args.keywords # Absent
                 THEN findSegmentsByKeyword(all, args.keywords[1], FALSE)
                 ELSE findSegmentsBySpeaker(all, args.speaker[1])
             range == expandToNaturalBoundaries(
                          SelectedSegments(all, found), all,
                          [paddingSeconds |->
                               IF args.padding = Absent THEN Given(DefaultPadding)
                               ELSE args.padding,
                           expandToSpeakerTurn |-> Absent])
         IN  IF range.kind = "throw"
             THEN [exit |-> Given(1), matches |-> Given(Len(found)),
                   expansions |-> 1, range |-> Absent,
                   printed |-> <<"found", "error">>]
             ELSE [exit |-> Absent, matches |-> Given(Len(found)),
                   expansions |-> 1, range |-> Given(range.value),
                   printed |-> <<"found", "expanded">>]

\* lines 482-510: load the transcript, search it, expand what was found.  A
\* throw of parseTranscript or of the expansion reaches the catch of lines
\* 549-553, which prints the error and exits with status 1
SearchStep(args, loads, all) ==
    IF ~loads
    THEN [exit |-> Given(1), matches |-> Absent, expansions |-> 0,
          range |-> Absent, printed |-> <<"error">>]
    ELSE LET found ==
                 IF args.keywords # Absent
                 THEN findSegmentsByKeyword(all, args.keywords[1], FALSE)
                 ELSE findSegmentsBySpeaker(all, args.speaker[1])
             range == expandToNaturalBoundaries(
                          SelectedSegments(all, found), all,
                          [paddingSeconds |->
                               IF args.padding = Absent THEN Given(DefaultPadding)
                               ELSE args.padding,
                           expandToSpeakerTurn |-> Absent])
         IN  IF Len(found) = 0
             THEN [exit |-> Given(1), matches |-> Given(0), expansions |-> 0,
                   range |-> Absent, printed |-> <<"error">>]
             ELSE IF range.kind = "throw"
             THEN [exit |-> Given(1), matches |-> Given(Len(found)),
                   expansions |-> 1, range |-> Absent,
                   printed |-> <<"found", "error">>]
             ELSE [exit |-> Absent, matches |-> Given(Len(found)),
                   expansions |-> 1, range |-> Given(range.value),
                   printed |-> <<"found", "expanded">>]

\* a run about to start: nothing resolved, printed or spawned yet
Run(args, loads) ==
    [pc |-> "start", args |-> args, loads |-> loads, range |-> Absent,
     matches |-> Absent, expansions |-> 0, output |-> Absent,
     command |-> Absent, printed |-> <<>>, spawned |-> 0, tool |-> Absent,
     exit |-> Absent]

\* the program is not started yet; segments is what the transcript file
\* holds
InitCli ==
    /\ segments \in CliTranscripts
    /\ call = NoCall
    /\ ranges = <<>>
    /\ mcall = NoMerge
    /\ cli = NoRun

\* line 460: the program is started with some arguments, and the transcript
\* file, if it is read, loads or fails to
StartRun ==
    /\ cli = NoRun
    /\ call = NoCall
    /\ \E args \in CliArgs, loads \in BOOLEAN :
        /\ ~loads => segments = <<>>
        /\ cli' = Run(args, loads)
    /\ UNCHANGED <<segments, ranges, mcall, call>>

\* process.exit(code), or the return of main with code 0
Exit(run, code, lines) ==
    [run EXCEPT !.pc = "done", !.exit = Given(code),
                !.printed = run.printed \o lines]

\* lines 462-470: help, or no arguments, ends with 0; no input ends with 1
CheckArgs ==
    /\ cli.pc = "start"
    /\ cli' = IF cli.args.help \/ ~cli.args.given THEN Exit(cli, 0, <<"help">>)
              ELSE IF cli.args.input = Absent THEN Exit(cli, 1, <<"error">>)
              ELSE [cli EXCEPT !.pc = "resolve"]
    /\ UNCHANGED <<segments, ranges, mcall, call>>

\* lines 476-514: the range given directly, or found by a search and
\* expanded, or the run ends with 1
ResolveStep(args, loads, all) ==
    IF args.start # Absent /\ args.end # Absent
    THEN [exit |-> Absent, matches |-> Absent, expansions |-> 0,
          range |-> Given([start |-> args.start[1], end |-> args.end[1]]),
          printed |-> <<>>]
    ELSE IF /\ args.transcript # Absent
            /\ args.keywords # Absent \/ args.speaker # Absent
    THEN SearchStep(args, loads, all)
    ELSE [exit |-> Given(1), matches |-> Absent, expansions |-> 0,
          range |-> Absent, printed |-> <<"error">>]

ResolveRange ==
    /\ cli.pc = "resolve"
    /\ \E step \in {ResolveStep(cli.args, cli.loads, segments)} :
        cli' = [cli EXCEPT
                   !.pc = IF step.exit # Absent THEN "done" ELSE "generate",
                   !.exit = step.exit,
                   !.matches = step.matches,
                   !.expansions = step.expansions,
                   !.range = step.range,
                   !.printed = cli.printed \o step.printed]
    /\ UNCHANGED <<segments, ranges, mcall, call>>

\* lines 516-528: the output path, defaulted from the input, and the command
GenerateCommand ==
    /\ cli.pc = "generate"
    /\ LET output == IF cli.args.output # Absent THEN cli.args.output[1]
                     ELSE ReplaceExtension(cli.args.input[1],
                              <<"_", "c", "l", "i", "p", ".", "m", "p", "3">>)
       IN  cli' = [cli EXCEPT
                       !.pc = "emit",
                       !.output = Given(output),
                       !.command = Given(generateFFmpegCommand(
                           [inputPath  |-> cli.args.input[1],
                            outputPath |-> output,
                            start      |-> cli.range[1].start,
                            end        |-> cli.range[1].end,
                            codec      |-> cli.args.codec,
                            fadeIn     |-> cli.args.fadeIn,
                            fadeOut    |-> cli.args.fadeOut]))]
    /\ UNCHANGED <<segments, ranges, mcall, call>>

\* lines 530-532: the command printed, and main returns
PrintDryRun ==
    /\ cli.pc = "emit"
    /\ cli.args.dryRun
    /\ cli' = Exit(cli, 0, <<"command">>)
    /\ UNCHANGED <<segments, ranges, mcall, call>>

\* the tool spawned whatever the flag says
SpawnToolAlways ==
    /\ cli.pc = "emit"
    /\ cli' = [cli EXCEPT !.pc = "await", !.spawned = cli.spawned + 1,
                          !.printed = cli.printed \o <<"executing">>]
    /\ UNCHANGED <<segments, ranges, mcall, call>>

\* lines 533-538: the command handed to Bun.spawn
SpawnTool ==
    /\ cli.pc = "emit"
    /\ ~cli.args.dryRun
    /\ cli' = [cli EXCEPT !.pc = "await", !.spawned = cli.spawned + 1,
                          !.printed = cli.printed \o <<"executing">>]
    /\ UNCHANGED <<segments, ranges, mcall, call>>

\* lines 539-545: the tool ends with some code; a code other than 0 is the
\* exit code of the run
ToolExits ==
    /\ cli.pc = "await"
    /\ \E code \in ExitCodes :
        cli' = IF code # 0
               THEN Exit([cli EXCEPT !.tool = Given(code)], code, <<"error">>)
               ELSE Exit([cli EXCEPT !.tool = Given(code)], 0, <<"saved">>)
    /\ UNCHANGED <<segments, ranges, mcall, call>>

\* the steps main takes by itself
CliStep == CheckArgs \/ ResolveRange \/ GenerateCommand \/ PrintDryRun \/ SpawnTool

NextCli == StartRun \/ CliStep \/ ToolExits

\* main runs on until it exits or awaits the tool; when the tool ends is the
\* tool's affair
SpecCli == InitCli /\ [][NextCli]_vars /\ WF_vars(CliStep)

\* a run of the program is under way or has ended
Running == cli.pc # "none"

\* the run has the dry-run flag
DryRun == Running /\ cli.args.dryRun

\* a line of the given kind was written to the console
Printed(what) == \E k \in 1..Len(cli.printed) : cli.printed[k] = what

\* the clip range is resolved and the command is about to be generated
Resolved == Running /\ cli.pc = "generate"

\* the command exists and was printed as the dry run prints it
CommandShown == Running /\ cli.command # Absent /\ Printed("command")

\* the command exists and the tool was spawned once
SpawnedOnce == Running /\ cli.command # Absent /\ cli.spawned = 1

\* the tool is never spawned twice, never before the command exists, and its
\* exit code, when not 0, is the exit code of the run
SpawnDiscipline ==
    Running =>
        /\ cli.spawned <= 1
        /\ cli.spawned = 1 => cli.command # Absent
        /\ (cli.tool # Absent /\ cli.tool[1] # 0) => cli.exit = cli.tool

\* C24 as stated: every run with the dry-run flag generates and prints the
\* command and never spawns the tool; every run without the flag spawns the
\* tool exactly once, after the command was generated, and a non-zero exit
\* code of the tool is the exit code of the run
DryRunContractEveryRun ==
    /\ [](DryRun => cli.spawned = 0)
    /\ DryRun ~> CommandShown
    /\ (Running /\ ~DryRun) ~> SpawnedOnce
    /\ []SpawnDiscipline

\* C24: every run that resolves a clip range generates the command; with the
\* dry-run flag the command is printed and the tool is never spawned, without
\* the flag the tool is spawned exactly once, after the command was
\* generated, and a non-zero exit code of the tool is the exit code of the run
DryRunContract ==
    /\ [](DryRun => cli.spawned = 0)
    /\ (Resolved /\ DryRun) ~> CommandShown
    /\ (Resolved /\ ~DryRun) ~> SpawnedOnce
    /\ []SpawnDiscipline

\* a dry run that searched the transcript, printed the command and ended
\* with 0 without spawning the tool
DryRunWitness ==
    /\ DryRun
    /\ cli.pc = "done"
    /\ cli.matches # Absent
    /\ Printed("command")
    /\ cli.spawned = 0
    /\ cli.exit = Given(0)

\* the run searched the transcript and found nothing
NothingFound == Running /\ cli.matches = Given(0)

\* C26: in a run in search mode the boundary expansion is invoked only after
\* the keyword or speaker search returned at least one segment; a search
\* without matches ends the run with exit status 1 before a range is
\* resolved, and no command is generated, printed or executed
SearchGuardsExpansion ==
    Running =>
        /\ cli.expansions > 0 => (cli.matches # Absent /\ cli.matches[1] >= 1)
        /\ NothingFound =>
               /\ cli.pc = "done"
               /\ cli.exit = Given(1)
               /\ cli.expansions = 0
               /\ cli.range = Absent
               /\ cli.command = Absent
               /\ ~Printed("command")
               /\ ~Printed("executing")
               /\ cli.spawned = 0

\* a speaker search over a loaded transcript that matched no segment and
\* ended the run
EmptySearchWitness ==
    /\ NothingFound
    /\ cli.args.keywords = Absent
    /\ cli.args.speaker # Absent
    /\ Len(segments) > 0
    /\ cli.pc = "done"

-----------------------------------------------------------------------------
\* The defaulted output path, in the program and in clipFromInsight

\* clipFromInsight called by a library user, outside a run of the program
InsightClipCall == cli = NoRun /\ ClipFromInsightCall

NextOutput == NextCli \/ InsightClipCall

SpecOutput == InitCli /\ [][NextOutput]_vars

\* C28: when no output path is supplied the defaulted output path differs
\* from the input media path, in the program and in clipFromInsight, for
\* every input path, with or without extension: no generated command names
\* its input as its output
DefaultOutputDiffers ==
    /\ (Running /\ cli.command # Absent /\ cli.args.output = Absent) =>
           /\ cli.output[1] # cli.args.input[1]
           /\ ArgOf(cli.command[1], "output") # ArgOf(cli.command[1], "-i")
    /\ (/\ call.op = "clipFromInsight"
        /\ call.options.outputPath = Absent
        /\ call.options.inputPath = Absent) =>
           /\ ArgOf(call.result, "output") # call.mediaPath
           /\ ArgOf(call.result, "output") # ArgOf(call.result, "-i")

-----------------------------------------------------------------------------
\* Lookup by value and lookup by index

\* the range of expandToNaturalBoundaries when the walks start at the
\* positions sel of the first and the last selected segment in all
RangeByIndex(sel, all, options) ==
    LET selected     == SelectedSegments(all, sel)
        firstSpeaker == selected[1].speaker
        lastSpeaker  == selected[Len(selected)].speaker
        start0       == MinStart(selected)
        end0         == MaxEnd(selected)
        turn ==
            IF ~TurnValue(options) THEN [start |-> start0, end |-> end0]
            ELSE [start |-> IF Truthy(firstSpeaker)
                            THEN WalkBack(all, firstSpeaker, sel[1] - 1, start0)
                            ELSE start0,
                  end   |-> IF Truthy(lastSpeaker)
                            THEN WalkForward(all, lastSpeaker,
                                             sel[Len(sel)] + 1, end0)
                            ELSE end0]
    IN  ApplyPadding(turn, PaddingValue(options))

\* C25: over a transcript whose starts are pairwise distinct and whose ends
\* are pairwise distinct, for every non-empty selection that is a subsequence
\* of it, expandToNaturalBoundaries returns the range of the variant that
\* starts both walks at the index of the first and last selected segment
ValueLookupIsIndexLookup ==
    (/\ ExpandReturned
     /\ StartsDistinct(segments)
     /\ EndsDistinct(segments)) =>
        Range = RangeByIndex(call.sel, segments, call.options)

\* a selection inside a speaker's turn, neither at the first nor at the last
\* segment of the transcript, whose range grew on both sides
ValueLookupWitness ==
    /\ ExpandReturned
    /\ StartsDistinct(segments)
    /\ EndsDistinct(segments)
    /\ Turn
    /\ call.sel[1] > 1
    /\ call.sel[Len(call.sel)] < Len(segments)
    /\ Truthy(Selected[1].speaker)
    /\ Range.start < Selected[1].start - Padding
    /\ Range.end > Selected[Len(Selected)].end + Padding

-----------------------------------------------------------------------------
\* Merging again: a second call on the list the caller still holds, or on
\* the list the first call returned

\* the first call on the caller-held list
FirstMerge == ~mcall.done /\ MergeCall

\* the ranges behind the references refs, as read from heap
ValuesOf(heap, refs) == [k \in 1..Len(refs) |-> heap[refs[k]]]

\* mergeOverlappingRanges(ranges, gap) once more on the caller-held list,
\* whose objects are as the first call left them
MergeCallerListAgain ==
    /\ mcall.done
    /\ call = NoCall
    /\ LET r == mergeOverlappingRanges(ranges, CallerList, GapValue(mcall.gap)) IN
        /\ ranges' = r.heap
        /\ call' = [op     |-> "mergeOverlappingRanges",
                    arg    |-> "ranges",
                    first  |-> ValuesOf(ranges, mcall.out),
                    second |-> ValuesOf(r.heap, r.merged)]
    /\ UNCHANGED <<segments, mcall, cli>>

\* mergeOverlappingRanges(merged, gap) on the list the first call returned
MergeResultAgain ==
    /\ mcall.done
    /\ call = NoCall
    /\ LET r == mergeOverlappingRanges(ranges, mcall.out, GapValue(mcall.gap)) IN
        /\ ranges' = r.heap
        /\ call' = [op     |-> "mergeOverlappingRanges",
                    arg    |-> "merged",
                    first  |-> ValuesOf(ranges, mcall.out),
                    second |-> ValuesOf(r.heap, r.merged)]
    /\ UNCHANGED <<segments, mcall, cli>>

NextRemerge == FirstMerge \/ MergeCallerListAgain \/ MergeResultAgain

SpecRemerge == InitMerge /\ [][NextRemerge]_vars

\* a second merge was made
MergedAgain == call.op = "mergeOverlappingRanges"

\* every range of the list first merged had start <= end
WellFormedInput == \A i \in 1..Len(mcall.arg) : mcall.arg[i].start <= mcall.arg[i].end

\* C27: for ranges with start <= end and a gap threshold >= 0, merging the
\* result of a merge again with the same threshold returns a list equal to
\* the first result, and a second call on the same caller-held list returns
\* a result equal to the first
MergeIdempotent ==
    (MergedAgain /\ WellFormedInput) => call.second = call.first

\* a second call on a caller-held list of which the first call merged some
\* ranges and kept others apart
MergeIdempotentWitness ==
    /\ MergedAgain
    /\ WellFormedInput
    /\ call.arg = "ranges"
    /\ Len(mcall.arg) = 3
    /\ Len(call.first) = 2
    /\ call.second = call.first
    /\ ValuesOf(ranges, CallerList) # mcall.arg

-----------------------------------------------------------------------------
\* Boundary expansion of segments that need not be in the transcript

ShortTranscripts == { t \in Transcripts : Len(t) <= MaxForeignSegs }

InitForeign ==
    /\ segments \in ShortTranscripts
    /\ call = NoCall
    /\ ranges = <<>>
    /\ mcall = NoMerge
    /\ cli = NoRun

\* expandToNaturalBoundaries(selected, allSegments, options) with a selected
\* segment built by the caller
ExpandForeignCall ==
    /\ call = NoCall
    /\ \E segment \in Segments, options \in OptionArgs :
        call' = [op       |-> "expandToNaturalBoundaries",
                 selected |-> <<segment>>,
                 options  |-> options,
                 result   |-> expandToNaturalBoundaries(<<segment>>, segments,
                                                        options)]
    /\ UNCHANGED <<segments, ranges, mcall, cli>>

NextForeign == ExpandForeignCall

SpecForeign == InitForeign /\ [][NextForeign]_vars

\* no segment of the transcript starts where the first selected one starts
StartUnlocated ==
    \A i \in 1..Len(segments) : segments[i].start # call.selected[1].start

\* no segment of the transcript ends where the last selected one ends
EndUnlocated ==
    \A i \in 1..Len(segments) :
        segments[i].end # call.selected[Len(call.selected)].end

\* the base range of the selection with the padding applied
PaddedBase ==
    ApplyPadding([start |-> MinStart(call.selected),
                  end   |-> MaxEnd(call.selected)],
                 PaddingValue(call.options))

\* the start of an unlocated first segment is the padded base start
UnlocatedStartKept ==
    (Expanded /\ StartUnlocated) => call.result.value.start = PaddedBase.start

\* C29: a side is expanded only from a located segment: when the first
\* selected start is the start of no segment of the transcript the start is
\* the base start with padding, and when the last selected end is the end of
\* no segment the end is the base end with padding
UnlocatedSideKept ==
    Expanded =>
        /\ StartUnlocated => call.result.value.start = PaddedBase.start
        /\ EndUnlocated => call.result.value.end = PaddedBase.end

\* C30: no command of generateFFmpegCommand, for any codec, fadeIn and
\* fadeOut, carries both an audio fade filter and the stream-copy directive
FiltersNeverWithStreamCopy ==
    Generated => ~(PartsWith("-af") # {} /\ PartsWith("-c copy") # {})
=============================================================================
